---- MODULE Spec2Model ----
(***************************************************************************)
(* Core-SNP-filter: the two-pass column filter of src/src/main.rs.         *)
(*                                                                         *)
(* A run is drop_columns(filename, exclude_invariant, core, ...):          *)
(*   1. get_first_fasta_seq_length  (misc.rs)   -> alignment_length        *)
(*   2. bitvectors_and_counts       (first pass over the records)          *)
(*   3. the classification loop over the columns, then the assertion       *)
(*   4. output_sequence for every record (second pass over the records)    *)
(*                                                                         *)
(* Bytes are numbers 0..255.  Sequences are 1-based here, 0-based in the   *)
(* source: column i of the model is index i-1 of the code.                 *)
(* The threshold core is an f64 in [0, 1]; the model holds it in tenths    *)
(* (core = 5 is 0.5) and compares the fraction with it by cross            *)
(* multiplication, which agrees with the f64 comparison for the counts     *)
(* and thresholds used here (both sides are correctly rounded values of    *)
(* rationals that are either equal or far apart).                          *)
(***************************************************************************)
EXTENDS Integers, Sequences, FiniteSets, TLC

VARIABLES
    file,               \* the records of the input file, in order: [head, seq]
    exclude_invariant,  \* Cli.exclude_invariant
    core,               \* Cli.core, in tenths
    pc,                 \* position of the run
    err,                \* message of quit_with_error / of the panic, "" if none
    err_args,           \* the expressions whose values are formatted into err
    alignment_length,   \* drop_columns: alignment_length
    rec,                \* index of the next record the current fasta_reader yields
    a, c, g, t,         \* bitvectors_and_counts: presence bit vectors
    seq_count,          \* bitvectors_and_counts: seq_count
    acgt_counts,        \* bitvectors_and_counts: acgt_counts
    keep,               \* drop_columns: keep
    i,                  \* drop_columns: loop variable of the classification loop
    inv_a, inv_c, inv_g, inv_t, inv_other,
    non_core,
    output_size,        \* drop_columns: output_size
    removed_total,      \* drop_columns: removed_total
    kept_seq,           \* remove_columns: the String built by the latest call
    stdout              \* the lines written to the output sink, in order

vars == <<file, exclude_invariant, core, pc, err, err_args, alignment_length, rec,
          a, c, g, t, seq_count, acgt_counts, keep, i,
          inv_a, inv_c, inv_g, inv_t, inv_other, non_core,
          output_size, removed_total, kept_seq, stdout>>

scan_vars == <<a, c, g, t, seq_count, acgt_counts>>
class_vars == <<keep, i, inv_a, inv_c, inv_g, inv_t, inv_other, non_core>>
input_vars == <<file, exclude_invariant, core>>

----------------------------------------------------------------------------
(* Bounds and input alphabets *)

MaxLen == 2
MaxSeqs == 3

\* Sequence bytes: 'A', 'c', the gap '-', and one byte above 0x7F
Bytes == {65, 99, 45, 233}

\* Thresholds in tenths: 0.0, 0.5, 1.0
CoreValues == {0, 5, 10}

\* Header lines (without '>'): "s", "s d", "s ", and a lone byte 0xE9
PlainHeader == <<115>>
Headers == {<<115>>, <<115, 32, 100>>, <<115, 32>>, <<233>>}

\* Sequence bytes of the header-oriented specification
HdrBytes == {71, 116}

SeqsOver(B) == UNION {[1..n -> B] : n \in 0..MaxLen}
FilesOver(B, H) == UNION {[1..n -> [head : H, seq : SeqsOver(B)]] : n \in 0..MaxSeqs}

----------------------------------------------------------------------------
(* bitvectors_and_counts *)

EmptyStats(L) ==
    [a |-> [j \in 1..L |-> FALSE], c |-> [j \in 1..L |-> FALSE],
     g |-> [j \in 1..L |-> FALSE], t |-> [j \in 1..L |-> FALSE],
     acgt_counts |-> [j \in 1..L |-> 0]]

\* the match of one byte, lowercase arms missing
ScanByteUpperOnly(st, j, b) ==
    IF b = 65 THEN [st EXCEPT !.a[j] = TRUE, !.acgt_counts[j] = @ + 1]
    ELSE IF b = 67 THEN [st EXCEPT !.c[j] = TRUE, !.acgt_counts[j] = @ + 1]
    ELSE IF b = 71 THEN [st EXCEPT !.g[j] = TRUE, !.acgt_counts[j] = @ + 1]
    ELSE IF b = 84 THEN [st EXCEPT !.t[j] = TRUE, !.acgt_counts[j] = @ + 1]
    ELSE st

\* the match of one byte, the count incremented for the other bytes too
ScanByteCountsEveryByte(st, j, b) ==
    IF b \in {65, 97} THEN [st EXCEPT !.a[j] = TRUE, !.acgt_counts[j] = @ + 1]
    ELSE IF b \in {67, 99} THEN [st EXCEPT !.c[j] = TRUE, !.acgt_counts[j] = @ + 1]
    ELSE IF b \in {71, 103} THEN [st EXCEPT !.g[j] = TRUE, !.acgt_counts[j] = @ + 1]
    ELSE IF b \in {84, 116} THEN [st EXCEPT !.t[j] = TRUE, !.acgt_counts[j] = @ + 1]
    ELSE [st EXCEPT !.acgt_counts[j] = @ + 1]

\* match seq[i] { 65 | 97 => .., 67 | 99 => .., 71 | 103 => .., 84 | 116 => .., _ => () }
ScanByte(st, j, b) ==
    IF b \in {65, 97} THEN [st EXCEPT !.a[j] = TRUE, !.acgt_counts[j] = @ + 1]
    ELSE IF b \in {67, 99} THEN [st EXCEPT !.c[j] = TRUE, !.acgt_counts[j] = @ + 1]
    ELSE IF b \in {71, 103} THEN [st EXCEPT !.g[j] = TRUE, !.acgt_counts[j] = @ + 1]
    ELSE IF b \in {84, 116} THEN [st EXCEPT !.t[j] = TRUE, !.acgt_counts[j] = @ + 1]
    ELSE st

\* for i in 0..alignment_length { match seq[i] ... }
RECURSIVE ScanPositions(_, _, _, _)
ScanPositions(st, seq, j, L) ==
    IF j > L THEN st
    ELSE ScanPositions(ScanByte(st, j, seq[j]), seq, j + 1, L)

\* only a longer record is rejected
LengthMismatchLongerOnly(L, seq) == Len(seq) > L

\* if alignment_length != seq.len()
LengthMismatch(L, seq) == L # Len(seq)

\* the whole first pass over records that all have length L
RECURSIVE ScanRecords(_, _, _, _)
ScanRecords(st, seqs, k, L) ==
    IF k > Len(seqs) THEN [stats |-> st, seq_count |-> Len(seqs)]
    ELSE ScanRecords(ScanPositions(st, seqs[k], 1, L), seqs, k + 1, L)

bitvectors_and_counts(seqs, L) == ScanRecords(EmptyStats(L), seqs, 1, L)

----------------------------------------------------------------------------
(* get_first_fasta_seq_length: -1 stands for "no record", which quits *)

NoRecord == -1

\* an input without records taken for an alignment of length 0
FirstSeqLengthZeroForEmpty(f) == IF Len(f) = 0 THEN 0 ELSE Len(f[1].seq)

get_first_fasta_seq_length(f) == IF Len(f) = 0 THEN NoRecord ELSE Len(f[1].seq)

\* a file without records is either a file of no bytes, which open_fasta_file
\* rejects (check_if_file_is_empty), or one in which the reader finds no record
EmptyInputErrors == {"is empty", "contains no sequences"}

----------------------------------------------------------------------------
(* The classification loop of drop_columns *)

\* a column with any canonical base counts as varying
has_variation_any(ba, bc, bg, bt) ==
    LET total == (IF ba THEN 1 ELSE 0) + (IF bc THEN 1 ELSE 0)
                 + (IF bg THEN 1 ELSE 0) + (IF bt THEN 1 ELSE 0)
    IN total > 0

\* let total = a as i32 + c as i32 + g as i32 + t as i32; total > 1
has_variation(ba, bc, bg, bt) ==
    LET total == (IF ba THEN 1 ELSE 0) + (IF bc THEN 1 ELSE 0)
                 + (IF bg THEN 1 ELSE 0) + (IF bt THEN 1 ELSE 0)
    IN total > 1

\* the fraction rounded to one decimal before it is compared
FracLessThanCoreRounded(count, n, co) == (count * 10 + n \div 2) \div n < co

\* frac < core, with frac = count / n and core in tenths
FracLessThanCore(count, n, co) == count * 10 < co * n

\* the comparison turned around
NonCoreDropGreater(keep_i, count, n, co) == keep_i /\ co * n < count * 10

\* the test without its keep[i] conjunct
NonCoreDropNoKeep(keep_i, count, n, co) == FracLessThanCore(count, n, co)

\* if keep[i] && frac < core
NonCoreDrop(keep_i, count, n, co) == keep_i /\ FracLessThanCore(count, n, co)

\* if exclude_invariant && !variation
InvariantDrop(ei, variation) == ei /\ ~variation

\* one iteration of the loop, for column j, on the classification state cl
ClassifyColumnStep(cl, st, n, ei, co, j) ==
    LET variation == has_variation(st.a[j], st.c[j], st.g[j], st.t[j])
        c1 == IF InvariantDrop(ei, variation)
              THEN IF st.a[j] THEN [cl EXCEPT !.keep[j] = FALSE, !.inv_a = @ + 1]
                   ELSE IF st.c[j] THEN [cl EXCEPT !.keep[j] = FALSE, !.inv_c = @ + 1]
                   ELSE IF st.g[j] THEN [cl EXCEPT !.keep[j] = FALSE, !.inv_g = @ + 1]
                   ELSE IF st.t[j] THEN [cl EXCEPT !.keep[j] = FALSE, !.inv_t = @ + 1]
                   ELSE [cl EXCEPT !.keep[j] = FALSE, !.inv_other = @ + 1]
              ELSE cl
    IN IF NonCoreDrop(c1.keep[j], st.acgt_counts[j], n, co)
       THEN [c1 EXCEPT !.keep[j] = FALSE, !.non_core = @ + 1]
       ELSE c1

\* lines 61-63
InitialClassification(L) ==
    [keep |-> [j \in 1..L |-> TRUE],
     inv_a |-> 0, inv_c |-> 0, inv_g |-> 0, inv_t |-> 0, inv_other |-> 0,
     non_core |-> 0]

\* the whole loop, from column j on
RECURSIVE ClassifyFrom(_, _, _, _, _, _, _)
ClassifyFrom(cl, st, n, ei, co, j, L) ==
    IF j > L THEN cl
    ELSE ClassifyFrom(ClassifyColumnStep(cl, st, n, ei, co, j), st, n, ei, co, j + 1, L)

ClassifyAll(st, n, ei, co, L) ==
    ClassifyFrom(InitialClassification(L), st, n, ei, co, 1, L)

\* keep.iter().filter(|n| *n == true).count()
CountTrue(bits) == Cardinality({j \in 1..Len(bits) : bits[j]})

----------------------------------------------------------------------------
(* output_sequence: get_fasta_header and remove_columns *)

\* kept_seq.push(full_seq[i] as char): the byte becomes the char of that code
\* point, and the String stores the char in UTF-8
PushChar(b) == IF b < 128 THEN <<b>> ELSE <<192 + (b \div 64), 128 + (b % 64)>>

RECURSIVE RemoveFrom(_, _, _)
RemoveFrom(full_seq, kp, j) ==
    IF j > Len(full_seq) THEN <<>>
    ELSE (IF kp[j] THEN PushChar(full_seq[j]) ELSE <<>>) \o RemoveFrom(full_seq, kp, j + 1)

\* the loop of remove_columns
remove_columns(full_seq, kp) == RemoveFrom(full_seq, kp, 1)

\* the mask cleared by the projection of a record
KeepClearedByProjection(kp) == [j \in 1..Len(kp) |-> FALSE]

\* output_sequence and remove_columns take keep: &BitVec, a shared reference:
\* the mask is read, never written
BorrowedKeep(kp) == kp

\* position of the first space of the header line, 0 if there is none
FirstSpace(head) ==
    IF \E p \in 1..Len(head) : head[p] = 32
    THEN CHOOSE p \in 1..Len(head) : head[p] = 32 /\ \A q \in 1..(p - 1) : head[q] # 32
    ELSE 0

\* record.id(): the header up to its first space
RecordId(head) ==
    IF FirstSpace(head) = 0 THEN head ELSE SubSeq(head, 1, FirstSpace(head) - 1)

\* record.desc(): what follows the first space, if there is one
RecordDesc(head) ==
    IF FirstSpace(head) = 0 THEN [some |-> FALSE, val |-> <<>>]
    ELSE [some |-> TRUE, val |-> SubSeq(head, FirstSpace(head) + 1, Len(head))]

\* str::from_utf8 succeeds; the header alphabet has no continuation byte, so a
\* header is valid UTF-8 exactly when all its bytes are ASCII
Utf8Valid(bytes) == \A p \in 1..Len(bytes) : bytes[p] < 128

\* the two unwrap() of get_fasta_header succeed
HeaderReadable(head) ==
    /\ Utf8Valid(RecordId(head))
    /\ RecordDesc(head).some => Utf8Valid(RecordDesc(head).val)

\* the description left out
get_fasta_header_id_only(head) == RecordId(head)

get_fasta_header(head) ==
    RecordId(head) \o (IF RecordDesc(head).some THEN <<32>> \o RecordDesc(head).val ELSE <<>>)

----------------------------------------------------------------------------
(* The run *)


Init ==
    /\ file \in FilesOver(Bytes, {PlainHeader})
    /\ exclude_invariant \in BOOLEAN
    /\ core \in CoreValues
    /\ pc = "start"
    /\ err = ""
    /\ err_args = <<>>
    /\ alignment_length = 0
    /\ rec = 1
    /\ a = <<>> /\ c = <<>> /\ g = <<>> /\ t = <<>>
    /\ seq_count = 0
    /\ acgt_counts = <<>>
    /\ keep = <<>>
    /\ i = 1
    /\ inv_a = 0 /\ inv_c = 0 /\ inv_g = 0 /\ inv_t = 0 /\ inv_other = 0
    /\ non_core = 0
    /\ output_size = 0
    /\ removed_total = 0
    /\ kept_seq = <<>>
    /\ stdout = <<>>

\* drop_columns line 54 and the start of bitvectors_and_counts (lines 191-198)
Start ==
    /\ pc = "start"
    /\ LET len == get_first_fasta_seq_length(file) IN
         IF len = NoRecord
         THEN /\ pc' = "error"
              /\ err' \in EmptyInputErrors
              /\ err_args' = <<"filename.display()">>
              /\ UNCHANGED <<alignment_length, scan_vars>>
         ELSE /\ pc' = "scan"
              /\ err' = err
              /\ err_args' = err_args
              /\ alignment_length' = len
              /\ a' = EmptyStats(len).a
              /\ c' = EmptyStats(len).c
              /\ g' = EmptyStats(len).g
              /\ t' = EmptyStats(len).t
              /\ seq_count' = 0
              /\ acgt_counts' = EmptyStats(len).acgt_counts
    /\ rec' = 1
    /\ UNCHANGED <<input_vars, class_vars, output_size, removed_total, kept_seq, stdout>>

\* one iteration of the while loop of bitvectors_and_counts (lines 199-215)
ScanRecord ==
    /\ pc = "scan"
    /\ rec <= Len(file)
    /\ LET seq == file[rec].seq
           st == ScanPositions([a |-> a, c |-> c, g |-> g, t |-> t,
                                acgt_counts |-> acgt_counts], seq, 1, alignment_length)
       IN IF LengthMismatch(alignment_length, seq)
          THEN /\ pc' = "error"
               /\ err' = "all sequences must be equal length"
               /\ err_args' = <<>>
               /\ UNCHANGED <<rec, scan_vars>>
          ELSE IF Len(seq) < alignment_length
          THEN /\ pc' = "panic"
               /\ err' = "index out of bounds"
               /\ err_args' = <<>>
               /\ seq_count' = seq_count + 1
               /\ UNCHANGED <<rec, a, c, g, t, acgt_counts>>
          ELSE /\ pc' = pc
               /\ err' = err
               /\ err_args' = err_args
               /\ rec' = rec + 1
               /\ seq_count' = seq_count + 1
               /\ a' = st.a /\ c' = st.c /\ g' = st.g /\ t' = st.t
               /\ acgt_counts' = st.acgt_counts
    /\ UNCHANGED <<input_vars, alignment_length, class_vars, output_size, removed_total,
                   kept_seq, stdout>>

\* the reader is exhausted: bitvectors_and_counts returns, lines 61-63 run
ScanDone ==
    /\ pc = "scan"
    /\ rec > Len(file)
    /\ pc' = "classify"
    /\ keep' = InitialClassification(alignment_length).keep
    /\ inv_a' = 0 /\ inv_c' = 0 /\ inv_g' = 0 /\ inv_t' = 0 /\ inv_other' = 0
    /\ non_core' = 0
    /\ i' = 1
    /\ UNCHANGED <<input_vars, err, err_args, alignment_length, rec, scan_vars, output_size,
                   removed_total, kept_seq, stdout>>

\* one iteration of the classification loop (lines 67-85)
ClassifyColumn ==
    /\ pc = "classify"
    /\ i <= alignment_length
    /\ LET cl == ClassifyColumnStep(
                    [keep |-> keep, inv_a |-> inv_a, inv_c |-> inv_c, inv_g |-> inv_g,
                     inv_t |-> inv_t, inv_other |-> inv_other, non_core |-> non_core],
                    [a |-> a, c |-> c, g |-> g, t |-> t, acgt_counts |-> acgt_counts],
                    seq_count, exclude_invariant, core, i)
       IN /\ keep' = cl.keep
          /\ inv_a' = cl.inv_a /\ inv_c' = cl.inv_c /\ inv_g' = cl.inv_g
          /\ inv_t' = cl.inv_t /\ inv_other' = cl.inv_other
          /\ non_core' = cl.non_core
    /\ i' = i + 1
    /\ UNCHANGED <<input_vars, pc, err, err_args, alignment_length, rec, scan_vars, output_size,
                   removed_total, kept_seq, stdout>>

\* lines 86-95: the counts, the assertion, the second reader
ClassifyDone ==
    /\ pc = "classify"
    /\ i > alignment_length
    /\ output_size' = CountTrue(keep)
    /\ removed_total' = (inv_a + inv_c + inv_g + inv_t + inv_other) + non_core
    /\ IF alignment_length = output_size' + removed_total'
       THEN /\ pc' = "project"
            /\ err' = err
            /\ err_args' = err_args
            /\ rec' = 1
       ELSE /\ pc' = "panic"
            /\ err' = "assertion failed: alignment_length == output_size + removed_total"
            /\ err_args' = <<>>
            /\ rec' = rec
    /\ UNCHANGED <<input_vars, alignment_length, scan_vars, class_vars, kept_seq, stdout>>

\* one iteration of the second while loop: output_sequence (lines 96-99, 110-128)
OutputSequence ==
    /\ pc = "project"
    /\ rec <= Len(file)
    /\ LET head == file[rec].head
           full_seq == file[rec].seq
       IN IF ~HeaderReadable(head)
          THEN /\ pc' = "panic"
               /\ err' = "called Result::unwrap() on an Err value: Utf8Error"
               /\ err_args' = <<>>
               /\ UNCHANGED <<rec, kept_seq, stdout>>
          ELSE IF Len(full_seq) > Len(keep)
          THEN /\ pc' = "panic"
               /\ err' = "index out of bounds"
               /\ err_args' = <<>>
               /\ UNCHANGED <<rec, kept_seq, stdout>>
          ELSE /\ kept_seq' = remove_columns(full_seq, keep)
               /\ IF Len(kept_seq') = output_size
                  THEN /\ pc' = pc
                       /\ err' = err
                       /\ err_args' = err_args
                       /\ rec' = rec + 1
                       /\ stdout' = stdout \o <<(<<62>> \o get_fasta_header(head)), kept_seq'>>
                  ELSE /\ pc' = "panic"
                       /\ err' = "assertion failed: kept_seq.len() == output_size"
                       /\ err_args' = <<>>
                       /\ UNCHANGED <<rec, stdout>>
    /\ keep' = BorrowedKeep(keep)
    /\ UNCHANGED <<input_vars, alignment_length, scan_vars, i, inv_a, inv_c, inv_g, inv_t,
                   inv_other, non_core, output_size, removed_total>>

\* the second reader is exhausted: drop_columns returns
ProjectDone ==
    /\ pc = "project"
    /\ rec > Len(file)
    /\ pc' = "done"
    /\ UNCHANGED <<input_vars, err, err_args, alignment_length, rec, scan_vars, class_vars,
                   output_size, removed_total, kept_seq, stdout>>

Next ==
    \/ Start
    \/ ScanRecord
    \/ ScanDone
    \/ ClassifyColumn
    \/ ClassifyDone
    \/ OutputSequence
    \/ ProjectDone

Spec == Init /\ [][Next]_vars

\* the same program on inputs whose header lines vary
InitHdr ==
    /\ file \in FilesOver(HdrBytes, Headers)
    /\ exclude_invariant \in BOOLEAN
    /\ core \in CoreValues
    /\ pc = "start"
    /\ err = ""
    /\ err_args = <<>>
    /\ alignment_length = 0
    /\ rec = 1
    /\ a = <<>> /\ c = <<>> /\ g = <<>> /\ t = <<>>
    /\ seq_count = 0
    /\ acgt_counts = <<>>
    /\ keep = <<>>
    /\ i = 1
    /\ inv_a = 0 /\ inv_c = 0 /\ inv_g = 0 /\ inv_t = 0 /\ inv_other = 0
    /\ non_core = 0
    /\ output_size = 0
    /\ removed_total = 0
    /\ kept_seq = <<>>
    /\ stdout = <<>>

SpecHdr == InitHdr /\ [][Next]_vars

----------------------------------------------------------------------------
(* The program on the alignments of its unit tests *)

\* the header lines "seq_1", "seq_2", "seq_3" of the tests
TestHeader(k) == <<115, 101, 113, 95, 48 + k>>

TestFile(s1, s2, s3) ==
    <<[head |-> TestHeader(1), seq |-> s1], [head |-> TestHeader(2), seq |-> s2],
      [head |-> TestHeader(3), seq |-> s3]>>

\* test_drop_columns_1, _2: ACGATCAG / ACCATTAG / ACGATCAG
ScenarioB ==
    TestFile(<<65, 67, 71, 65, 84, 67, 65, 71>>, <<65, 67, 67, 65, 84, 84, 65, 71>>,
             <<65, 67, 71, 65, 84, 67, 65, 71>>)

\* test_drop_columns_3, _4, _5: ACGATCAG / AC----CG / AGGATCAG
ScenarioC ==
    TestFile(<<65, 67, 71, 65, 84, 67, 65, 71>>, <<65, 67, 45, 45, 45, 45, 67, 71>>,
             <<65, 71, 71, 65, 84, 67, 65, 71>>)

\* test_bitvectors_and_counts_2: aacgacta / AGCNACGA / acgGCTca
ScenarioMixedCase ==
    TestFile(<<97, 97, 99, 103, 97, 99, 116, 97>>, <<65, 71, 67, 78, 65, 67, 71, 65>>,
             <<97, 99, 103, 71, 67, 84, 99, 97>>)

\* test_drop_columns_14, _15: AC---CGG / CCCNNNNG / ACXQVPAG
ScenarioNonBase ==
    TestFile(<<65, 67, 45, 45, 45, 67, 71, 71>>, <<67, 67, 67, 78, 78, 78, 78, 71>>,
             <<65, 67, 88, 81, 86, 80, 65, 71>>)

ScenarioFiles == {ScenarioB, ScenarioC, ScenarioMixedCase, ScenarioNonBase}

\* the thresholds of the tests, in tenths: 0.0, 0.6, 0.7, 1.0
ScenarioCores == {0, 6, 7, 10}

\* the variables of a run that has not started
RunNotStarted ==
    /\ pc = "start"
    /\ err = ""
    /\ err_args = <<>>
    /\ alignment_length = 0
    /\ rec = 1
    /\ a = <<>> /\ c = <<>> /\ g = <<>> /\ t = <<>>
    /\ seq_count = 0
    /\ acgt_counts = <<>>
    /\ keep = <<>>
    /\ i = 1
    /\ inv_a = 0 /\ inv_c = 0 /\ inv_g = 0 /\ inv_t = 0 /\ inv_other = 0
    /\ non_core = 0
    /\ output_size = 0
    /\ removed_total = 0
    /\ kept_seq = <<>>
    /\ stdout = <<>>

InitScenario ==
    /\ file \in ScenarioFiles
    /\ exclude_invariant \in BOOLEAN
    /\ core \in ScenarioCores
    /\ RunNotStarted

SpecScenario == InitScenario /\ [][Next]_vars

\* the program on all the inputs above
InitAll == Init \/ InitHdr \/ InitScenario

SpecAll == InitAll /\ [][Next]_vars

----------------------------------------------------------------------------
(* Shorthands of the properties *)

inv_total == inv_a + inv_c + inv_g + inv_t + inv_other

\* the records' sequences, in order
FileSeqs == [k \in 1..Len(file) |-> file[k].seq]

\* some record's length differs from the first record's
HasLengthMismatch ==
    \E k \in 1..Len(file) : Len(file[k].seq) # Len(file[1].seq)

\* the number of presence bits set in column j
BitsSet(j) == Cardinality({b \in {"a", "c", "g", "t"} :
                 \/ b = "a" /\ a[j]
                 \/ b = "c" /\ c[j]
                 \/ b = "g" /\ g[j]
                 \/ b = "t" /\ t[j]})

\* rule 1 and rule 2 of the per-column decision, stated on the scan's results
Rule1(j) == exclude_invariant /\ ~(BitsSet(j) > 1)
Rule2(j) == acgt_counts[j] * 10 < core * seq_count

\* the bytes of seq at the columns where kp is true, in column order
RECURSIVE BytesAtKept(_, _, _)
BytesAtKept(seq, kp, j) ==
    IF j > Len(seq) THEN <<>>
    ELSE (IF kp[j] THEN <<seq[j]>> ELSE <<>>) \o BytesAtKept(seq, kp, j + 1)

----------------------------------------------------------------------------
(* C1 *)

\* C1: throughout the classification loop the columns dropped so far number
\* inv_total + non_core (so no column is counted twice), and when the loop has
\* ended alignment_length = output_size + inv_total + non_core with output_size
\* the number of true bits of keep: the assertion does not fail.
C1_Reconciliation ==
    /\ pc = "classify" =>
          Cardinality({j \in 1..(i - 1) : ~keep[j]}) = inv_total + non_core
    /\ err # "assertion failed: alignment_length == output_size + removed_total"
    /\ pc \in {"project", "done"} =>
          /\ output_size = CountTrue(keep)
          /\ alignment_length = output_size + inv_total + non_core
          /\ removed_total = inv_total + non_core

\* C1 witness: classification ended with an invariant drop and a non-core drop
C1_Witness ==
    /\ pc = "project"
    /\ inv_total > 0
    /\ non_core > 0
----------------------------------------------------------------------------
(* C2 *)

MismatchError == "all sequences must be equal length"

\* C2: when some record's length differs from the first record's, the run never
\* gets past the scan, the only way it ends is the length-mismatch error, and
\* nothing is ever written to the output.
C2_MismatchNoOutput ==
    HasLengthMismatch =>
        /\ stdout = <<>>
        /\ pc \in {"start", "scan", "error"}
        /\ pc = "error" => err = MismatchError
        /\ pc = "scan" => \A k \in 1..(rec - 1) : Len(file[k].seq) = alignment_length

\* C2 witness: the run has failed on the last of the records
C2_Witness ==
    /\ pc = "error"
    /\ err = MismatchError
    /\ Len(file) = MaxSeqs
    /\ rec = Len(file)
    /\ Len(file[rec].seq) < alignment_length

----------------------------------------------------------------------------
(* C3 *)

\* the columns the classification loop has handled
ColumnsClassified == IF pc = "classify" THEN i - 1 ELSE alignment_length

\* C3: every classified column is dropped as invariant when exclude_invariant
\* holds and at most one presence bit is set; otherwise dropped as non-core when
\* its fraction is below core; otherwise kept.  The counts follow the first
\* matching rule.
C3_Decision ==
    pc \in {"classify", "project", "done"} =>
        /\ \A j \in 1..ColumnsClassified : keep[j] = (~Rule1(j) /\ ~Rule2(j))
        /\ inv_total = Cardinality({j \in 1..ColumnsClassified : Rule1(j)})
        /\ non_core = Cardinality({j \in 1..ColumnsClassified : ~Rule1(j) /\ Rule2(j)})

\* C3 witness: one column matches both rules, another only the second
C3_Witness ==
    /\ pc = "project"
    /\ \E j \in 1..alignment_length : Rule1(j) /\ Rule2(j)
    /\ \E j \in 1..alignment_length : ~Rule1(j) /\ Rule2(j)

----------------------------------------------------------------------------
(* C4, C5, C7 *)

KeptSeqAssertion == "assertion failed: kept_seq.len() == output_size"

\* C4: the sequence remove_columns builds for a record, and the one written, is
\* the record's bytes at the kept columns, in column order, each unchanged.
C4_ProjectionIsOriginalBytes ==
    /\ pc \in {"project", "done"} =>
          \A k \in 1..(rec - 1) : stdout[2 * k] = BytesAtKept(file[k].seq, keep, 1)
    /\ (pc = "panic" /\ err = KeptSeqAssertion) =>
          kept_seq = BytesAtKept(file[rec].seq, keep, 1)

\* C5: once the scan has succeeded the assertion of remove_columns does not
\* fail, and every sequence written has length output_size.
C5_ProjectedLength ==
    /\ err # KeptSeqAssertion
    /\ pc \in {"project", "done"} =>
          \A k \in 1..(rec - 1) : Len(stdout[2 * k]) = output_size

\* C7: with core = 0.0 and exclude_invariant = false every column is kept, the
\* run does not fail after the scan, and the output is the input's headers and
\* full sequences.
C7_Identity ==
    (~exclude_invariant /\ core = 0) =>
        /\ pc \in {"project", "done", "panic"} => \A j \in 1..alignment_length : keep[j]
        /\ pc # "panic"
        /\ pc = "done" =>
              /\ Len(stdout) = 2 * Len(file)
              /\ \A k \in 1..Len(file) :
                    /\ stdout[2 * k - 1] = <<62>> \o file[k].head
                    /\ stdout[2 * k] = file[k].seq

----------------------------------------------------------------------------
(* C6 *)

\* C6: the header lines written are those of the records read so far, in input
\* order and unchanged (the id alone, or the id, one space and the
\* description); a finished run has written one record per input record.
C6_HeadersInOrder ==
    pc \in {"project", "done"} =>
        /\ Len(stdout) = 2 * (rec - 1)
        /\ pc = "done" => rec - 1 = Len(file)
        /\ \A k \in 1..(rec - 1) :
              /\ stdout[2 * k - 1] = <<62>> \o file[k].head
              /\ stdout[2 * k - 1] =
                    IF \E p \in 1..Len(file[k].head) : file[k].head[p] = 32
                    THEN <<62>> \o RecordId(file[k].head) \o <<32>> \o RecordDesc(file[k].head).val
                    ELSE <<62>> \o RecordId(file[k].head)

\* C6 witness: a finished run over three records with three different headers
C6_Witness ==
    /\ pc = "done"
    /\ Len(file) = MaxSeqs
    /\ file[1].head = <<115, 32, 100>>
    /\ file[2].head = <<115>>
    /\ file[3].head = <<115, 32>>
    /\ file[1].seq # file[2].seq

----------------------------------------------------------------------------
(* C8 *)

StateStats == [a |-> a, c |-> c, g |-> g, t |-> t, acgt_counts |-> acgt_counts]

StateClassification ==
    [keep |-> keep, inv_a |-> inv_a, inv_c |-> inv_c, inv_g |-> inv_g,
     inv_t |-> inv_t, inv_other |-> inv_other, non_core |-> non_core]

\* the output width of this input and exclude_invariant under threshold co
OutputSizeWith(co) ==
    CountTrue(ClassifyAll(StateStats, seq_count, exclude_invariant, co, alignment_length).keep)

\* C8: for the input and exclude_invariant of the run, a larger threshold never
\* gives a larger output width; the run's own width is the one of its threshold.
C8_Monotone ==
    pc \in {"project", "done"} =>
        /\ output_size = OutputSizeWith(core)
        /\ \A c1 \in CoreValues : \A c2 \in CoreValues :
              c1 <= c2 => OutputSizeWith(c2) <= OutputSizeWith(c1)

\* C8 witness: the width strictly shrinks from 0.0 to 0.5 to 1.0
C8_Witness ==
    /\ pc = "project"
    /\ core = 5
    /\ OutputSizeWith(0) > output_size
    /\ output_size > OutputSizeWith(10)

----------------------------------------------------------------------------
(* C9 *)

\* the other case of a canonical base letter, any other byte unchanged
FlipCase(b) ==
    IF b \in {65, 67, 71, 84} THEN b + 32
    ELSE IF b \in {97, 99, 103, 116} THEN b - 32
    ELSE b

Positions == (1..Len(file)) \X (1..alignment_length)

\* the sequences of the file with the case changed at the positions of M
CaseVariant(M) ==
    [k \in 1..Len(file) |->
        [j \in 1..alignment_length |->
            IF <<k, j>> \in M THEN FlipCase(file[k].seq[j]) ELSE file[k].seq[j]]]

\* C9: the scan and the classification of any case variant of the input give
\* the presence bits, counts, keep mask and aggregate counts of the run; the
\* sequences a finished run has written carry the original bytes.
C9_CaseInsensitive ==
    /\ (pc = "project" /\ rec = 1) =>
          \A M \in SUBSET Positions :
              LET r == bitvectors_and_counts(CaseVariant(M), alignment_length)
              IN /\ r.stats = StateStats
                 /\ r.seq_count = seq_count
                 /\ ClassifyAll(r.stats, r.seq_count, exclude_invariant, core,
                                alignment_length) = StateClassification
    /\ pc = "done" =>
          \A k \in 1..Len(file) : stdout[2 * k] = BytesAtKept(file[k].seq, keep, 1)

\* C9 witness: a finished run that kept a column holding 'A' and a column
\* holding 'c' and wrote both letters in their case
C9_Witness ==
    /\ pc = "done"
    /\ exclude_invariant
    /\ \E k \in 1..Len(file) : stdout[2 * k] = <<65, 99>>
    /\ \E k \in 1..Len(file) : stdout[2 * k] = <<99, 65>>

----------------------------------------------------------------------------
(* C10 *)

\* C10: an input without records ends in the empty-input error with nothing
\* computed and nothing written; classification only runs with seq_count >= 1.
C10_EmptyInput ==
    /\ Len(file) = 0 =>
          /\ pc \in {"start", "error"}
          /\ pc = "error" => err \in EmptyInputErrors
          /\ stdout = <<>>
          /\ seq_count = 0 /\ acgt_counts = <<>> /\ keep = <<>>
          /\ a = <<>> /\ c = <<>> /\ g = <<>> /\ t = <<>>
    /\ pc \in {"classify", "project", "done"} => seq_count >= 1

\* C10 witness: the run on an input without records has failed
C10_Witness ==
    /\ pc = "error"
    /\ Len(file) = 0
    /\ err \in EmptyInputErrors

----------------------------------------------------------------------------
(* C11 *)

\* the columns in which some record has the gap '-'
GapColumns ==
    {j \in 1..alignment_length : \E k \in 1..Len(file) : file[k].seq[j] = 45}

DroppedColumns == {j \in 1..alignment_length : ~keep[j]}

ScenarioCAt70 == file = ScenarioC /\ ~exclude_invariant /\ core = 7

\* the sequences ACAG / ACCG / AGAG were written, in this order
ScenarioCOutput ==
    /\ Len(stdout) = 6
    /\ stdout[2] = <<65, 67, 65, 71>>
    /\ stdout[4] = <<65, 67, 67, 71>>
    /\ stdout[6] = <<65, 71, 65, 71>>

\* C11 as stated: in scenario C with core = 0.7 there are two gap-bearing
\* columns, they are the columns dropped, and ACAG / ACCG / AGAG is written.
C11_TwoGapColumns ==
    (pc = "done" /\ ScenarioCAt70) =>
        /\ Cardinality(GapColumns) = 2
        /\ DroppedColumns = GapColumns
        /\ ScenarioCOutput

\* C11 as amended: in scenario C with core = 0.7 the four gap-bearing columns
\* (columns 3 to 6) are the columns dropped, all as non-core, and
\* ACAG / ACCG / AGAG is written.
C11_FourGapColumns ==
    (pc = "done" /\ ScenarioCAt70) =>
        /\ GapColumns = 3..6
        /\ DroppedColumns = GapColumns
        /\ non_core = 4 /\ inv_total = 0
        /\ output_size = 4
        /\ ScenarioCOutput

\* C11 witness: the run of scenario C with core = 0.7 has finished
C11_Witness ==
    /\ pc = "done"
    /\ ScenarioCAt70
    /\ stdout # <<>>

----------------------------------------------------------------------------
(* C12 *)

\* C12: the error of a length mismatch carries the input's name and the
\* expected and the actual sequence length.
C12_MismatchContext ==
    (pc = "error" /\ err = MismatchError) =>
        {"filename.display()", "alignment_length", "seq.len()"}
            \subseteq {err_args[p] : p \in 1..Len(err_args)}

----------------------------------------------------------------------------
(* C13 *)

CanonicalA == {65, 97}
CanonicalC == {67, 99}
CanonicalG == {71, 103}
CanonicalT == {84, 116}
CanonicalBytes == CanonicalA \cup CanonicalC \cup CanonicalG \cup CanonicalT

\* the records the first pass has visited
RecordsScanned == IF pc = "scan" THEN rec - 1 ELSE Len(file)

\* the records among the first n whose byte at column j is in S
RecordsWith(n, j, S) == {k \in 1..n : file[k].seq[j] \in S}

\* C13: during and after the scan seq_count is the number of records visited,
\* acgt_counts[j] the number of them with a canonical base at column j, and
\* each presence bit is set exactly when one of them has that base, in either
\* case; the other bytes change nothing, so 0 <= acgt_counts[j] <= seq_count
\* and acgt_counts[j] = 0 exactly when column j has no bit set.
C13_ScanResults ==
    pc \in {"scan", "classify", "project", "done"} =>
        LET n == RecordsScanned IN
        /\ seq_count = n
        /\ pc # "scan" => seq_count = Len(file)
        /\ Len(a) = alignment_length /\ Len(c) = alignment_length
        /\ Len(g) = alignment_length /\ Len(t) = alignment_length
        /\ Len(acgt_counts) = alignment_length
        /\ \A j \in 1..alignment_length :
              /\ acgt_counts[j] = Cardinality(RecordsWith(n, j, CanonicalBytes))
              /\ a[j] = (RecordsWith(n, j, CanonicalA) # {})
              /\ c[j] = (RecordsWith(n, j, CanonicalC) # {})
              /\ g[j] = (RecordsWith(n, j, CanonicalG) # {})
              /\ t[j] = (RecordsWith(n, j, CanonicalT) # {})
              /\ 0 <= acgt_counts[j] /\ acgt_counts[j] <= seq_count
              /\ (acgt_counts[j] = 0) = (~a[j] /\ ~c[j] /\ ~g[j] /\ ~t[j])

\* C13 witness: the scan of aacgacta / AGCNACGA / acgGCTca has ended with the
\* values test_bitvectors_and_counts_2 expects
C13_Witness ==
    /\ pc = "classify"
    /\ file = ScenarioMixedCase
    /\ seq_count = 3
    /\ a = <<TRUE, TRUE, FALSE, FALSE, TRUE, FALSE, FALSE, TRUE>>
    /\ c = <<FALSE, TRUE, TRUE, FALSE, TRUE, TRUE, TRUE, FALSE>>
    /\ g = <<FALSE, TRUE, TRUE, TRUE, FALSE, FALSE, TRUE, FALSE>>
    /\ t = <<FALSE, FALSE, FALSE, FALSE, FALSE, TRUE, TRUE, FALSE>>
    /\ acgt_counts = <<3, 3, 3, 2, 3, 3, 3, 3>>

----------------------------------------------------------------------------
(* C14 *)

\* C14: no step of the projection pass changes a bit of keep or the value of
\* output_size, and every sequence written so far is the projection of its
\* record by the mask as it is now.
C14_MaskFixed ==
    /\ [][pc = "project" => (keep' = keep /\ output_size' = output_size)]_vars
    /\ [](pc \in {"project", "done"} =>
            \A k \in 1..(rec - 1) : stdout[2 * k] = remove_columns(file[k].seq, keep))

\* C14 witness: a mask with a kept and a dropped column, after the projection
\* of all three records
C14_Witness ==
    /\ pc = "done"
    /\ Len(file) = MaxSeqs
    /\ Len(stdout) = 2 * MaxSeqs
    /\ \E j \in 1..alignment_length : keep[j]
    /\ \E j \in 1..alignment_length : ~keep[j]

----------------------------------------------------------------------------
(* C15 *)

\* the records a reader finds in the output written: each header line without
\* its '>' and the sequence line that follows it
OutputAsFile ==
    [k \in 1..(Len(stdout) \div 2) |->
        [head |-> Tail(stdout[2 * k - 1]), seq |-> stdout[2 * k]]]

\* the lines drop_columns writes for the first k records of f under the mask kp
RECURSIVE OutputLines(_, _, _)
OutputLines(f, kp, k) ==
    IF k = 0 THEN <<>>
    ELSE OutputLines(f, kp, k - 1)
            \o <<(<<62>> \o get_fasta_header(f[k].head)), remove_columns(f[k].seq, kp)>>

\* a run of drop_columns on the file f whose records all have the first one's length
RunOf(f, ei, co) ==
    LET L == get_first_fasta_seq_length(f)
        r == bitvectors_and_counts([k \in 1..Len(f) |-> f[k].seq], L)
        cl == ClassifyAll(r.stats, r.seq_count, ei, co, L)
    IN [alignment_length |-> L, stats |-> r.stats, seq_count |-> r.seq_count,
        keep |-> cl.keep, lines |-> OutputLines(f, cl.keep, Len(f))]

\* the column of the input that is the m-th kept one
KeptColumn(m) ==
    CHOOSE j \in 1..alignment_length :
        keep[j] /\ Cardinality({x \in 1..j : keep[x]}) = m

\* a second run, with the same settings, on the output written reads the same
\* number of sequences, finds in each column the presence bits and count of
\* the surviving column it came from, keeps every column, passes its length
\* checks and writes the same output again
SecondRunReproduces ==
    LET f2 == OutputAsFile
        r2 == RunOf(f2, exclude_invariant, core)
    IN /\ Len(f2) = Len(file)
       /\ r2.alignment_length = output_size
       /\ \A k \in 1..Len(f2) :
             /\ ~LengthMismatch(r2.alignment_length, f2[k].seq)
             /\ HeaderReadable(f2[k].head)
             /\ Len(remove_columns(f2[k].seq, r2.keep)) = CountTrue(r2.keep)
       /\ r2.seq_count = seq_count
       /\ \A m \in 1..output_size :
             /\ r2.keep[m]
             /\ r2.stats.a[m] = a[KeptColumn(m)]
             /\ r2.stats.c[m] = c[KeptColumn(m)]
             /\ r2.stats.g[m] = g[KeptColumn(m)]
             /\ r2.stats.t[m] = t[KeptColumn(m)]
             /\ r2.stats.acgt_counts[m] = acgt_counts[KeptColumn(m)]
       /\ r2.lines = stdout

\* a run that finished is reproduced by a second run on its output
FinishedRunReproduced == pc = "done" => SecondRunReproduces

\* the finished run of test_drop_columns_5, which dropped the six columns
\* without variation and wrote CA / CC / GA
FinishedRunWithDrops ==
    /\ pc = "done"
    /\ file = ScenarioC
    /\ exclude_invariant /\ core = 7
    /\ inv_total = 6 /\ output_size = 2
    /\ stdout[2] = <<67, 65>> /\ stdout[4] = <<67, 67>> /\ stdout[6] = <<71, 65>>

\* C15: filtering is idempotent for every input that passed the scan and the
\* classification: the projection pass ends with the whole output written, and
\* a second run with the same settings on that output keeps every column and
\* writes it again unchanged.
C15_Idempotent ==
    pc \in {"done", "panic"} => (pc = "done" /\ SecondRunReproduces)
====
